---- MODULE Spec2Model ----
(***************************************************************************)
(* Model of the PDF extraction service: priority routing, the RQ lanes,    *)
(* the worker loop, the job functions and the job status endpoint.         *)
(*                                                                         *)
(* The broker (Redis + RQ) is a library: its enqueue / dequeue / perform   *)
(* steps are modelled at the places where the service calls them.  Text is *)
(* a sequence of one-character strings, positions are 0-based as in the    *)
(* Python source (character i of s is s[i + 1]).                           *)
(***************************************************************************)
EXTENDS Integers, Sequences, FiniteSets, TLC

VARIABLES rq_queues, lanes, jobs, next_id, workers, req, resp, ck,
          route_log, hk, pl, mgr

vars == <<rq_queues, lanes, jobs, next_id, workers, req, resp, ck, route_log, hk, pl, mgr>>

(***************************************************************************)
(* Bounds of the model.                                                    *)
(***************************************************************************)
MaxJobs == 2
NumWorkers == 2
MaxCalls == 2
MaxTextLen == 4
MaxChunk == 4
MaxIters == 6
MaxLines == 3
MaxMinLength == 4

JobIds == 1..MaxJobs
Workers == 1..NumWorkers

(***************************************************************************)
(* redis_connection.py: lane names and the priority router.                *)
(***************************************************************************)
PDF_QUEUE == "pdf_queue"
EXTRACTION_QUEUE == "extraction"
CHUNKING_QUEUE == "chunking"
EMBEDDING_QUEUE == "embedding"
HIGH_PRIORITY_QUEUE == "high_priority"
LOW_PRIORITY_QUEUE == "low_priority"

DEFAULT_QUEUES ==
    <<PDF_QUEUE, HIGH_PRIORITY_QUEUE, EXTRACTION_QUEUE,
      LOW_PRIORITY_QUEUE, CHUNKING_QUEUE, EMBEDDING_QUEUE>>

LaneNames == {DEFAULT_QUEUES[i] : i \in DOMAIN DEFAULT_QUEUES}

\* config.py WorkerConfig.queues: RQ_QUEUES defaults to "extraction,chunking".
WorkerConfigQueues == <<EXTRACTION_QUEUE, CHUNKING_QUEUE>>

\* tests/test_runner.py: RQ_QUEUES as the test suite expects it.
TestRunnerQueues == <<PDF_QUEUE, HIGH_PRIORITY_QUEUE, LOW_PRIORITY_QUEUE>>

\* The queue lists a worker of this repository is started with.
QueueConfigs == {WorkerConfigQueues, TestRunnerQueues, DEFAULT_QUEUES}

UpperCase ==
    <<"A", "B", "C", "D", "E", "F", "G", "H", "I", "J", "K", "L", "M",
      "N", "O", "P", "Q", "R", "S", "T", "U", "V", "W", "X", "Y", "Z">>

LowerCase ==
    <<"a", "b", "c", "d", "e", "f", "g", "h", "i", "j", "k", "l", "m",
      "n", "o", "p", "q", "r", "s", "t", "u", "v", "w", "x", "y", "z">>

\* A comparison that keeps the case of the priority.
keep_case(s) == s

\* str.lower() on one character.
lower_char(c) ==
    IF \E i \in DOMAIN UpperCase : UpperCase[i] = c
    THEN LowerCase[CHOOSE i \in DOMAIN UpperCase : UpperCase[i] = c]
    ELSE c

\* str.lower().
lower(s) == [i \in DOMAIN s |-> lower_char(s[i])]

\* get_queue_by_priority: the lane it names, or the ValueError it raises.
get_queue_by_priority(priority) ==
    LET priority_lower == lower(priority) IN
    IF priority_lower = <<"h", "i", "g", "h">>
    THEN [ok |-> TRUE, name |-> HIGH_PRIORITY_QUEUE]
    ELSE IF priority_lower = <<"n", "o", "r", "m", "a", "l">>
    THEN [ok |-> TRUE, name |-> PDF_QUEUE]
    ELSE IF priority_lower = <<"l", "o", "w">>
    THEN [ok |-> TRUE, name |-> LOW_PRIORITY_QUEUE]
    ELSE [ok |-> FALSE, name |-> "ValueError"]

\* The priority form values a caller sends.
PriorityInputs ==
    { <<"h", "i", "g", "h">>, <<"N", "o", "r", "m", "a", "l">>,
      <<"L", "O", "W">>, <<"u", "r", "g", "e", "n", "t">> }

(***************************************************************************)
(* Text helpers: Python str.strip, slicing and str.rfind.                  *)
(***************************************************************************)
Whitespace == {" ", "\t", "\n"}

Min(a, b) == IF a <= b THEN a ELSE b

RECURSIVE lstrip(_)
lstrip(s) ==
    IF s # <<>> /\ Head(s) \in Whitespace THEN lstrip(Tail(s)) ELSE s

RECURSIVE rstrip(_)
rstrip(s) ==
    IF s # <<>> /\ s[Len(s)] \in Whitespace
    THEN rstrip(SubSeq(s, 1, Len(s) - 1))
    ELSE s

\* str.strip()
strip(s) == rstrip(lstrip(s))

\* s[a:b] for 0 <= a
slice(s, a, b) == SubSeq(s, a + 1, Min(b, Len(s)))

\* s.rfind(c, start, end): the highest index in [start, end) holding c, or -1
rfind(s, c, start, end) ==
    LET hits == {i \in start..(Min(end, Len(s)) - 1) : s[i + 1] = c} IN
    IF hits = {} THEN -1 ELSE CHOOSE i \in hits : \A k \in hits : k <= i

(***************************************************************************)
(* extraction_jobs.py, _chunk_by_tokens.                                   *)
(***************************************************************************)
\* Lines 327-334: the end of the window that starts at start.
chunk_end(text, chunk_size, start) ==
    LET end == start + chunk_size
        last_space == rfind(text, " ", start, end)
    IN  IF end < Len(text) /\ last_space > start THEN last_space ELSE end

\* Windows laid end to end, without the overlap.
next_start_at_end(end, chunk_overlap) == end

\* Windows that leave one character out between them.
next_start_past_end(end, chunk_overlap) == end + 1

\* Lines 353-357: the start of the next window.
next_start(end, chunk_overlap) ==
    IF end - chunk_overlap <= 0 THEN end ELSE end - chunk_overlap

\* Lines 336-350: the chunk list after the window [start, end).
emit_chunk(chunks, text, start, end, chunk_index) ==
    LET chunk_text == strip(slice(text, start, end)) IN
    IF chunk_text # <<>>
    THEN Append(chunks, [text |-> chunk_text, start_char |-> start,
                         end_char |-> end, chunk_index |-> chunk_index,
                         chunk_size |-> Len(chunk_text)])
    ELSE chunks

\* The while loop, run for at most fuel iterations.  The loop's control
\* state is start alone, so a run that has not left the loop after
\* Len(text) + 1 iterations has repeated a start and never leaves it.
RECURSIVE chunk_loop(_, _, _, _, _, _)
chunk_loop(text, chunk_size, chunk_overlap, start, chunks, fuel) ==
    IF ~(start < Len(text)) THEN [terminates |-> TRUE, chunks |-> chunks]
    ELSE IF fuel = 0 THEN [terminates |-> FALSE, chunks |-> chunks]
    ELSE LET end == chunk_end(text, chunk_size, start) IN
         chunk_loop(text, chunk_size, chunk_overlap,
                    next_start(end, chunk_overlap),
                    emit_chunk(chunks, text, start, end, Len(chunks)),
                    fuel - 1)

\* A test that lets an overlap equal to the window size through.
overlap_exceeds(chunk_size, chunk_overlap) == chunk_size < chunk_overlap

\* Line 317: the window configuration that is refused.
invalid_window(chunk_size, chunk_overlap) == chunk_size <= chunk_overlap

\* _chunk_by_tokens as a function: raised (ValueError), or the chunks of a
\* run that returns, or terminates = FALSE for a run that never returns.
chunk_by_tokens(markdown, chunk_size, chunk_overlap) ==
    IF invalid_window(chunk_size, chunk_overlap)
    THEN [raised |-> TRUE, terminates |-> TRUE, chunks |-> <<>>]
    ELSE LET text == strip(markdown)
             run == chunk_loop(text, chunk_size, chunk_overlap, 0, <<>>,
                               Len(text) + 1)
         IN  [raised |-> FALSE, terminates |-> run.terminates,
              chunks |-> run.chunks]

(***************************************************************************)
(* extraction_jobs.py, _chunk_by_headers.                                  *)
(***************************************************************************)
DEFAULT_MIN_LENGTH == 100

\* str.splitlines() for texts whose only line break is "\n".
RECURSIVE split_from(_, _, _)
split_from(s, cur, acc) ==
    IF s = <<>> THEN (IF cur # <<>> THEN Append(acc, cur) ELSE acc)
    ELSE IF Head(s) = "\n" THEN split_from(Tail(s), <<>>, Append(acc, cur))
    ELSE split_from(Tail(s), Append(cur, Head(s)), acc)

splitlines(s) == split_from(s, <<>>, <<>>)

\* "\n".join(lines)
RECURSIVE join_lines(_)
join_lines(ls) ==
    IF ls = <<>> THEN <<>>
    ELSE IF Len(ls) = 1 THEN ls[1]
    ELSE ls[1] \o <<"\n">> \o join_lines(Tail(ls))

\* The number of leading characters of s that lie in set.
RECURSIVE count_prefix(_, _)
count_prefix(s, set) ==
    IF s # <<>> /\ Head(s) \in set THEN 1 + count_prefix(Tail(s), set) ELSE 0

\* re.match(r"^(#+)\s+(.+)", line): group 1 is the run of markers, \s+ gives
\* back one whitespace character when nothing else is left for group 2.
header_match(line) ==
    LET n == count_prefix(line, {"#"})
        m == count_prefix(SubSeq(line, n + 1, Len(line)), Whitespace)
        rest == SubSeq(line, n + m + 1, Len(line))
    IN  IF n >= 1 /\ m >= 1 /\ rest # <<>>
        THEN [matched |-> TRUE, level |-> n, title |-> rest]
        ELSE IF n >= 1 /\ m >= 2
        THEN [matched |-> TRUE, level |-> n, title |-> <<line[n + m]>>]
        ELSE [matched |-> FALSE, level |-> 0, title |-> <<>>]

\* A close that keeps the accumulated chunk whatever its length.
close_chunk_any_length(chunks, current_chunk, current_header, start_line, end_line, level, min_length) ==
    IF current_chunk # <<>>
    THEN Append(chunks, [text |-> strip(join_lines(current_chunk)),
                         header |-> current_header,
                         start_line |-> start_line, end_line |-> end_line,
                         header_level |-> level])
    ELSE chunks

\* A close that counts the line after the chunk into it.
close_chunk_past_end(chunks, current_chunk, current_header, start_line, end_line, level, min_length) ==
    LET text == strip(join_lines(current_chunk)) IN
    IF current_chunk # <<>> /\ Len(text) >= min_length
    THEN Append(chunks, [text |-> text, header |-> current_header,
                         start_line |-> start_line, end_line |-> end_line + 1,
                         header_level |-> level])
    ELSE chunks

\* Lines 255-268 and 278-291: close the accumulated chunk.  A None header
\* is the empty title and a None level is 0.
close_chunk(chunks, current_chunk, current_header, start_line, end_line, level, min_length) ==
    LET text == strip(join_lines(current_chunk)) IN
    IF current_chunk # <<>> /\ Len(text) >= min_length
    THEN Append(chunks, [text |-> text, header |-> current_header,
                         start_line |-> start_line, end_line |-> end_line,
                         header_level |-> level])
    ELSE chunks

\* Lines 249-275: the loop over the lines from index i (0-based) on, then
\* lines 277-291 for the final chunk.
RECURSIVE header_loop(_, _, _, _, _, _, _)
header_loop(lines, i, chunks, current_chunk, current_header, start_line, min_length) ==
    IF i >= Len(lines)
    THEN close_chunk(chunks, current_chunk, current_header, start_line,
                     Len(lines) - 1, 0, min_length)
    ELSE LET line == lines[i + 1]
             hm == header_match(line)
         IN  IF hm.matched
             THEN header_loop(lines, i + 1,
                      close_chunk(chunks, current_chunk, current_header,
                                  start_line, i - 1,
                                  IF current_header # <<>> THEN hm.level ELSE 0,
                                  min_length),
                      <<line>>, hm.title, i, min_length)
             ELSE header_loop(lines, i + 1, chunks,
                      Append(current_chunk, line), current_header,
                      start_line, min_length)

chunk_by_headers(markdown, min_length) ==
    header_loop(splitlines(markdown), 0, <<>>, <<>>, <<>>, 0, min_length)

(***************************************************************************)
(* extract.py and extraction_jobs.py: the job functions.  A job result is  *)
(* the returned dict: keys is the set of its keys, meta the set of keys of *)
(* its "metadata" entry.                                                   *)
(***************************************************************************)
Result(keys, success, error, meta, total_chunks) ==
    [keys |-> keys, success |-> success, error |-> error, meta |-> meta,
     total_chunks |-> total_chunks]

\* job.result of a job that has returned nothing (None).
NoResult == Result({}, FALSE, "", {}, 0)

\* What the uploaded bytes are: empty, not openable as a PDF, a PDF whose
\* markdown cannot be written to the configured directory, or a good PDF.
PayloadKinds == {"empty", "corrupt", "unwritable", "pdf"}

\* extract_markdown_with_hierarchy: the metadata dict it builds.
ExtractMetaKeys ==
    {"pages", "toc_entries", "headers_strategy", "header_levels_detected",
     "margins", "output_path", "output_size_chars"}

\* extract_markdown_with_hierarchy: the exception it raises, if any.
extract_markdown_with_hierarchy(file_bytes) ==
    IF file_bytes = "empty"
    THEN [raised |-> TRUE, exc |-> "ValueError", msg |-> "Empty PDF content"]
    ELSE IF file_bytes = "corrupt"
    THEN [raised |-> TRUE, exc |-> "ValueError", msg |-> "Failed to open PDF"]
    ELSE IF file_bytes = "unwritable"
    THEN [raised |-> TRUE, exc |-> "OSError", msg |-> "Permission denied"]
    ELSE [raised |-> FALSE, exc |-> "", msg |-> ""]

FailureKeys == {"success", "error", "filename", "processing_time"}

\* extract_pdf_markdown_job: the dict it returns (it catches everything).
extract_pdf_markdown_job(inp) ==
    IF inp.pdf_bytes = "empty"
    THEN Result(FailureKeys, FALSE,
                "Invalid input for doc.pdf: PDF bytes cannot be empty", {}, 0)
    ELSE LET r == extract_markdown_with_hierarchy(inp.pdf_bytes) IN
         IF r.raised /\ r.exc = "ValueError"
         THEN Result(FailureKeys, FALSE,
                     "Invalid input for doc.pdf: " \o r.msg, {}, 0)
         ELSE IF r.raised
         THEN Result(FailureKeys, FALSE,
                     "Extraction failed for doc.pdf: " \o r.msg, {}, 0)
         ELSE Result({"success", "markdown", "metadata", "filename",
                      "processing_time"}, TRUE, "",
                     ExtractMetaKeys \cup
                         (IF inp.analysis_metadata
                          THEN {"analysis_results"} ELSE {}),
                     0)

ChunkingFailure(msg) ==
    Result(FailureKeys, FALSE,
           "Extraction with chunking failed for doc.pdf: " \o msg, {}, 0)

\* The chunking pipeline with the chunker ahead of the extraction step: the
\* chunk configuration is examined whatever the extraction returns.
chunk_before_extraction(inp) ==
    LET extraction_result == extract_pdf_markdown_job(inp)
        c == chunk_by_tokens(inp.markdown, inp.chunk_size, inp.chunk_overlap)
    IN  IF inp.chunk_strategy = "token" /\ c.raised
        THEN [returned |-> TRUE, chunked |-> TRUE,
              result |-> ChunkingFailure(
                  "Chunk size must be greater than chunk overlap")]
        ELSE [returned |-> TRUE, chunked |-> TRUE,
              result |-> extraction_result]

\* extract_pdf_with_chunking_job: returned is FALSE when the call never
\* returns by itself (the token chunker does not leave its loop); chunked
\* says whether the call reached one of the two chunkers.
extract_pdf_with_chunking_job(inp) ==
    LET extraction_result == extract_pdf_markdown_job(inp)
        ok(n) == [returned |-> TRUE, chunked |-> TRUE,
                  result |-> Result(extraction_result.keys \cup
                                {"chunks", "chunk_strategy", "total_chunks"},
                                TRUE, "", extraction_result.meta, n)]
    IN  IF ~extraction_result.success
        THEN [returned |-> TRUE, chunked |-> FALSE,
              result |-> extraction_result]
        ELSE IF inp.chunk_strategy = "header"
        THEN ok(Len(chunk_by_headers(inp.markdown, DEFAULT_MIN_LENGTH)))
        ELSE IF inp.chunk_strategy = "token"
        THEN LET c == chunk_by_tokens(inp.markdown, inp.chunk_size,
                                      inp.chunk_overlap)
             IN  IF c.raised
                 THEN [returned |-> TRUE, chunked |-> TRUE,
                       result |-> ChunkingFailure(
                           "Chunk size must be greater than chunk overlap")]
                 ELSE IF ~c.terminates
                 THEN [returned |-> FALSE, chunked |-> TRUE,
                       result |-> NoResult]
                 ELSE ok(Len(c.chunks))
        ELSE [returned |-> TRUE, chunked |-> FALSE,
              result |-> ChunkingFailure("Unknown chunk strategy")]

\* The pipeline call under observation: before the call, and after it with
\* its arguments and its outcome.
IdlePipeline ==
    [pc |-> "idle", inp |-> <<>>, returned |-> FALSE, chunked |-> FALSE,
     result |-> NoResult]

\* The functions src/jobs/extraction_jobs.py defines.  app.py enqueues
\* "src.jobs.extraction_jobs.batch_extract_pdfs_job" by name, which the
\* module does not define: the worker's lookup of it raises.
DefinedFuncs == {"extract_pdf_markdown_job", "extract_pdf_with_chunking_job"}

\* The parameter names of each job function, and those without a default.
Params(func) ==
    IF func = "extract_pdf_markdown_job"
    THEN {"pdf_bytes", "filename", "config_dict", "analysis_metadata"}
    ELSE {"pdf_bytes", "filename", "chunk_strategy", "chunk_size",
          "chunk_overlap", "config_dict", "analysis_metadata"}

Required(func) == {"pdf_bytes", "filename"}

\* The keyword arguments the single-document endpoint enqueues.
SingleKwargs ==
    {"pdf_bytes", "filename", "analysis_metadata", "extraction_config"}

\* job_func(**kwargs) binds: no unknown keyword, no missing parameter.
binds(func, kwargs) == kwargs \subseteq Params(func) /\ Required(func) \subseteq kwargs

(***************************************************************************)
(* The broker state.  jobs[j] is the RQ job hash of id j: status "none"    *)
(* is an id not issued yet, "expired" a record purged after its TTL.       *)
(* lanes[q] is the Redis list of queue q, head first.                      *)
(***************************************************************************)
NoJobRecord ==
    [status |-> "none", origin |-> "", func |-> "", kwargs |-> {},
     owner |-> 0, dequeues |-> 0, updaters |-> {}, result |-> NoResult,
     exc_info |-> "", result_ttl |-> 0, failure_ttl |-> 0, expires_in |-> 0]

NoRequest == [kind |-> "none", job_id |-> 0]

NoResponse ==
    [kind |-> "none", code |-> 0, job_id |-> 0, status |-> "",
     queue_name |-> "", has_result |-> FALSE, has_error |-> FALSE,
     error |-> "", detail |-> ""]

\* redis_connection.py lines 42-43: a RedisConnectionManager after
\* __init__.  connection is _connection (0 for None, else the identity of
\* the Redis object), queues is _queues (obj 0 for a name that is not a
\* key, else the identity of the Queue object and of the connection it was
\* built with).  conns and objs count the Redis and Queue objects created,
\* answered holds the connections whose ping at creation was answered, and
\* ret is what the last call returned or raised.
NoQueue == [obj |-> 0, connection |-> 0]

NoReturn == [call |-> "none", arg |-> "", raised |-> FALSE, value |-> 0]

NewManager ==
    [connection |-> 0, queues |-> [n \in LaneNames |-> NoQueue],
     conns |-> 0, objs |-> 0, answered |-> {}, ret |-> NoReturn]

IdleChunker ==
    [pc |-> "idle", markdown |-> <<>>, text |-> <<>>, chunk_size |-> 0,
     chunk_overlap |-> 0, start |-> 0, end |-> 0, chunk_index |-> 0,
     chunks |-> <<>>, iters |-> 0]

IdleHeaderChunker ==
    [pc |-> "idle", markdown |-> <<>>, min_length |-> 0, chunks |-> <<>>]

Init ==
    /\ rq_queues \in QueueConfigs
    /\ lanes = [q \in LaneNames |-> <<>>]
    /\ jobs = [j \in JobIds |-> NoJobRecord]
    /\ next_id = 1
    /\ workers = [w \in Workers |-> [pc |-> "idle", job |-> 0]]
    /\ req = NoRequest
    /\ resp = NoResponse
    /\ ck = IdleChunker
    /\ route_log = <<>>
    /\ hk = IdleHeaderChunker
    /\ pl = IdlePipeline
    /\ mgr = NewManager

\* config.py QueueConfig and app.py lines 264-265: the seconds a record is
\* kept after its job has finished or failed.
RESULT_TTL == 3600

FAILURE_TTL == 86400

BATCH_RESULT_TTL == 7200

BATCH_FAILURE_TTL == 86400

\* A push at the head of the list, as enqueue(at_front=True) would do.
lpush(list, id) == <<id>> \o list

\* Queue.enqueue pushes at the tail of the list (no at_front).
rpush(list, id) == Append(list, id)

\* An enqueue that pushes the id and leaves the job hash to a later write.
push_without_record(lane, func, kwargs, result_ttl, failure_ttl) ==
    /\ next_id \in JobIds
    /\ lanes' = [lanes EXCEPT ![lane] = rpush(@, next_id)]
    /\ next_id' = next_id + 1
    /\ UNCHANGED jobs

\* Queue.enqueue: rpush on the lane and a job hash with status queued, in
\* one pipeline.  The new job's id is next_id.
rq_enqueue(lane, func, kwargs, result_ttl, failure_ttl) ==
    /\ next_id \in JobIds
    /\ lanes' = [lanes EXCEPT ![lane] = rpush(@, next_id)]
    /\ jobs' = [jobs EXCEPT ![next_id] =
                    [NoJobRecord EXCEPT !.status = "queued", !.origin = lane,
                                        !.func = func, !.kwargs = kwargs,
                                        !.result_ttl = result_ttl,
                                        !.failure_ttl = failure_ttl]]
    /\ next_id' = next_id + 1

UploadKinds == {"ok", "not_pdf", "empty", "bad_json"}

\* Line 202: the detail is "Failed to enqueue job: " and the text of the
\* exception caught, which for an HTTPException is its code and detail.
single_detail(upload) ==
    CASE upload = "not_pdf"  -> "Only PDF files are supported"
      [] upload = "empty"    -> "Failed to enqueue job: 400: Empty file uploaded"
      [] upload = "bad_json" -> "Failed to enqueue job: 400: Invalid JSON"
      [] OTHER               -> "Failed to enqueue job"

\* Lines 151-152 raise the 400 outside the try block; the HTTPExceptions
\* raised inside it are caught by except Exception and leave as a 500.
single_code(upload) == IF upload = "not_pdf" THEN 400 ELSE 500

(***************************************************************************)
(* app.py: POST /jobs/extract.  The filename check is outside the try:     *)
(* block; the other validation errors are raised inside it and leave as    *)
(* the 500 of the except Exception clause.  The response is built from     *)
(* job.get_status(), read after the enqueue.                               *)
(***************************************************************************)
enqueue_extraction_job(priority, upload) ==
    /\ req.kind = "none"
    /\ \/ /\ upload \in {"not_pdf", "empty", "bad_json"}
          /\ resp' = [NoResponse EXCEPT !.kind = "single",
                                        !.code = single_code(upload),
                                        !.detail = single_detail(upload)]
          /\ UNCHANGED <<lanes, jobs, next_id, req>>
       \/ /\ upload = "ok"
          /\ rq_enqueue(EXTRACTION_QUEUE, "extract_pdf_markdown_job",
                        SingleKwargs, RESULT_TTL, FAILURE_TTL)
          /\ req' = [kind |-> "single", job_id |-> next_id]
          /\ UNCHANGED resp
    /\ UNCHANGED <<rq_queues, workers, ck, route_log, hk, pl, mgr>>

\* Lines 191-198: the response of the accepted single submission.
respond_extraction_job ==
    /\ req.kind = "single"
    /\ LET status == jobs[req.job_id].status IN
       resp' = IF status \in {"none", "expired"}
               THEN [NoResponse EXCEPT !.kind = "single", !.code = 500,
                                       !.detail = "Failed to enqueue job"]
               ELSE [NoResponse EXCEPT !.kind = "single", !.code = 200,
                                       !.job_id = req.job_id,
                                       !.status = status,
                                       !.queue_name = EXTRACTION_QUEUE]
    /\ req' = NoRequest
    /\ UNCHANGED <<rq_queues, lanes, jobs, next_id, workers, ck, route_log, hk, pl, mgr>>

BatchUploadKinds == {"ok", "no_files", "not_pdf", "empty", "bad_json"}

PdfSuffix == <<".", "p", "d", "f">>

\* str.endswith
endswith(s, suffix) ==
    /\ Len(s) >= Len(suffix)
    /\ SubSeq(s, Len(s) - Len(suffix) + 1, Len(s)) = suffix

\* Line 225: the filename test of one uploaded file.
is_pdf_name(filename) == filename # <<>> /\ endswith(lower(filename), PdfSuffix)

\* A validation that skips an empty file and goes on with the next one.
RECURSIVE skip_empty(_, _, _)
skip_empty(files, i, json_ok) ==
    IF i > Len(files) THEN (IF json_ok THEN "ok" ELSE "bad_json")
    ELSE IF ~is_pdf_name(files[i].filename) THEN "not_pdf"
    ELSE skip_empty(files, i + 1, json_ok)

\* Lines 224-247: the files are checked in order, name first and bytes
\* second, and the first file that fails a check ends the request; the two
\* JSON strings are parsed after all files passed.
RECURSIVE validate_from(_, _, _)
validate_from(files, i, json_ok) ==
    IF i > Len(files) THEN (IF json_ok THEN "ok" ELSE "bad_json")
    ELSE IF ~is_pdf_name(files[i].filename) THEN "not_pdf"
    ELSE IF files[i].pdf_bytes = "empty" THEN "empty"
    ELSE validate_from(files, i + 1, json_ok)

\* A request that lets an empty file list through to the enqueue.
accept_no_files(files, json_ok) == validate_from(files, 1, json_ok)

\* Lines 219-247: what the validation of a batch request ends in.
validate_batch(files, json_ok) ==
    IF files = <<>> THEN "no_files" ELSE validate_from(files, 1, json_ok)

\* The detail of the HTTPException a rejected batch request leaves with.
batch_detail(upload) ==
    CASE upload = "no_files" -> "No files provided"
      [] upload = "not_pdf"  -> "File is not a PDF"
      [] upload = "empty"    -> "File is empty"
      [] upload = "bad_json" -> "Invalid JSON"
      [] upload = "bad_priority" ->
             "Failed to enqueue batch job: Unknown priority level"
      [] OTHER -> "Failed to enqueue batch job: queue_name Field required"

(***************************************************************************)
(* app.py: POST /jobs/batch-extract.  HTTPException is re-raised (400); an *)
(* unknown priority is a ValueError (500).  After the enqueue the response *)
(* model is built without its required queue_name, so the call ends in the *)
(* except Exception clause (500) with the job already in its lane.         *)
(***************************************************************************)
enqueue_batch_extraction_job(priority, files, json_ok) ==
    /\ req.kind = "none"
    /\ LET upload == validate_batch(files, json_ok) IN
       \/ /\ upload # "ok"
          /\ resp' = [NoResponse EXCEPT !.kind = "batch", !.code = 400,
                                        !.detail = batch_detail(upload)]
          /\ UNCHANGED <<lanes, jobs, next_id>>
       \/ /\ upload = "ok"
          /\ ~get_queue_by_priority(priority).ok
          /\ resp' = [NoResponse EXCEPT !.kind = "batch", !.code = 500,
                                        !.detail = batch_detail("bad_priority")]
          /\ UNCHANGED <<lanes, jobs, next_id>>
       \/ /\ upload = "ok"
          /\ get_queue_by_priority(priority).ok
          /\ rq_enqueue(get_queue_by_priority(priority).name,
                        "batch_extract_pdfs_job",
                        {"pdf_files", "batch_id", "analysis_metadata",
                         "extraction_config"},
                        BATCH_RESULT_TTL, BATCH_FAILURE_TTL)
          /\ resp' = [NoResponse EXCEPT !.kind = "batch", !.code = 500,
                                        !.detail = batch_detail(upload)]
    /\ UNCHANGED <<rq_queues, workers, req, ck, route_log, hk, pl, mgr>>

\* The uploads of a batch request.
File(filename, pdf_bytes) == [filename |-> filename, pdf_bytes |-> pdf_bytes]

GoodFile == File(<<"a", ".", "p", "d", "f">>, "pdf")

EmptyFile == File(<<"b", ".", "P", "D", "F">>, "empty")

CorruptFile == File(<<"c", ".", "p", "d", "f">>, "corrupt")

TextFile == File(<<"d", ".", "t", "x", "t">>, "pdf")

OneEmptyOfThree == <<GoodFile, EmptyFile, GoodFile>>

BatchFiles ==
    { <<>>, <<GoodFile>>, <<GoodFile, CorruptFile>>, OneEmptyOfThree,
      <<GoodFile, TextFile>>, <<File(<<>>, "pdf")>> }

\* The job functions are "designed to be called from the Extralit server":
\* it enqueues them on pdf_queue with keyword arguments of its choice.
DirectFuncs == {"extract_pdf_markdown_job", "extract_pdf_with_chunking_job"}

direct_enqueue(func) ==
    /\ rq_enqueue(PDF_QUEUE, func, Params(func) \ {"config_dict"},
                  RESULT_TTL, FAILURE_TTL)
    /\ UNCHANGED <<rq_queues, workers, req, resp, ck, route_log, hk, pl, mgr>>

(***************************************************************************)
(* worker.py: create_worker builds Worker(queues) from the configured      *)
(* names in their order, main() runs worker.work(): dequeue from the first *)
(* non-empty queue of the list, mark the job started, call the job         *)
(* function, record finished or failed, and loop.                          *)
(***************************************************************************)
\* The first queue of the worker's list that holds a job, "" when none.
dequeue_any(queues, ls) ==
    LET full == {i \in DOMAIN queues : ls[queues[i]] # <<>>} IN
    IF full = {} THEN ""
    ELSE queues[CHOOSE i \in full : \A k \in full : i <= k]

\* A read of the head that leaves the list as it is.
lindex(list) == list

\* The list after the worker's pop of its head.
lpop(list) == Tail(list)

dequeue_job(w) ==
    /\ workers[w].pc = "idle"
    /\ dequeue_any(rq_queues, lanes) # ""
    /\ LET lane == dequeue_any(rq_queues, lanes)
           j == Head(lanes[lane])
       IN  /\ lanes' = [lanes EXCEPT ![lane] = lpop(@)]
           /\ jobs' = [jobs EXCEPT ![j].owner = w,
                                   ![j].dequeues = @ + 1]
           /\ workers' = [workers EXCEPT ![w] = [pc |-> "dequeued", job |-> j]]
    /\ UNCHANGED <<rq_queues, next_id, req, resp, ck, route_log, hk, pl, mgr>>

prepare_job_execution(w) ==
    /\ workers[w].pc = "dequeued"
    /\ jobs' = [jobs EXCEPT ![workers[w].job].status = "started",
                            ![workers[w].job].updaters = @ \cup {w}]
    /\ workers' = [workers EXCEPT ![w].pc = "busy"]
    /\ UNCHANGED <<rq_queues, lanes, next_id, req, resp, ck, route_log, hk, pl, mgr>>

\* The inputs a job function is called with.
Markdowns == { <<"x", "x", " ", "x">>, <<"x", "x", "x">> }

ChunkConfigs == { <<2, 1>>, <<1, 1>> }

ChunkStrategies == {"header", "token", "semantic"}

JobInputs ==
    [pdf_bytes : PayloadKinds, analysis_metadata : BOOLEAN,
     chunk_strategy : ChunkStrategies, chunk_config : ChunkConfigs,
     markdown : Markdowns]

\* One input per distinct call: a function that does not take the chunking
\* arguments is called with one value of them, and the text and the window
\* are varied for the token strategy, which alone reads both.
distinct_call(func, inp) ==
    LET fixed(field, set) == inp[field] = CHOOSE v \in set : TRUE IN
    IF func = "extract_pdf_with_chunking_job"
    THEN \/ inp.chunk_strategy = "token"
         \/ fixed("chunk_config", ChunkConfigs) /\ fixed("markdown", Markdowns)
    ELSE /\ fixed("chunk_strategy", ChunkStrategies)
         /\ fixed("chunk_config", ChunkConfigs)
         /\ fixed("markdown", Markdowns)

call_args(inp) ==
    [pdf_bytes |-> inp.pdf_bytes, analysis_metadata |-> inp.analysis_metadata,
     chunk_strategy |-> inp.chunk_strategy,
     chunk_size |-> inp.chunk_config[1],
     chunk_overlap |-> inp.chunk_config[2], markdown |-> inp.markdown]

\* What calling the job's function can end in: it returns a result, it
\* raises, or it runs into the job timeout.  The timeout is raised inside
\* the job function (whose except Exception clause turns it into a
\* returned failure), unless the work horse is killed first.
job_outcomes(job, inp) ==
    IF job.func \notin DefinedFuncs
    THEN {[raised |-> TRUE, result |-> NoResult,
           exc_info |-> "AttributeError: module has no attribute"]}
    ELSE IF ~binds(job.func, job.kwargs)
    THEN {[raised |-> TRUE, result |-> NoResult,
           exc_info |-> "TypeError: got an unexpected keyword argument"]}
    ELSE IF job.func = "extract_pdf_with_chunking_job"
    THEN LET r == extract_pdf_with_chunking_job(inp) IN
         IF r.returned
         THEN {[raised |-> FALSE, result |-> r.result, exc_info |-> ""]}
         ELSE {[raised |-> FALSE,
                result |-> ChunkingFailure(
                    "Task exceeded maximum timeout value"),
                exc_info |-> ""],
               [raised |-> TRUE, result |-> NoResult,
                exc_info |-> "Work-horse terminated unexpectedly"]}
    ELSE {[raised |-> FALSE, result |-> extract_pdf_markdown_job(inp),
           exc_info |-> ""]}

\* A worker that puts a job that raised back to queued.
requeue_status(raised) == IF raised THEN "queued" ELSE "finished"

\* handle_job_success / handle_job_failure: the status the worker records.
final_status(raised) == IF raised THEN "failed" ELSE "finished"

\* A worker whose loop ends with the first job that raises.
stop_on_failure(raised) == IF raised THEN "stopped" ELSE "idle"

\* worker.work(): the exception of a job is handled inside the loop, which
\* goes back to the dequeue either way.
after_job(raised) == "idle"

\* Job.cleanup: the record of a finished job is given result_ttl seconds
\* to live, the record of a failed job failure_ttl seconds.
key_ttl(job, raised) == IF raised THEN job.failure_ttl ELSE job.result_ttl

perform_job(w, inp) ==
    /\ workers[w].pc = "busy"
    /\ distinct_call(jobs[workers[w].job].func, inp)
    /\ \E o \in job_outcomes(jobs[workers[w].job], call_args(inp)) :
          /\ jobs' = [jobs EXCEPT
                         ![workers[w].job].status = final_status(o.raised),
                         ![workers[w].job].result = o.result,
                         ![workers[w].job].exc_info = o.exc_info,
                         ![workers[w].job].expires_in =
                             key_ttl(jobs[workers[w].job], o.raised),
                         ![workers[w].job].updaters = @ \cup {w}]
          /\ workers' = [workers EXCEPT
                            ![w] = [pc |-> after_job(o.raised), job |-> 0]]
    /\ UNCHANGED <<rq_queues, lanes, next_id, req, resp, ck, route_log, hk, pl, mgr>>

\* result_ttl / failure_ttl elapse: Redis purges the job hash.
expire(j) ==
    /\ jobs[j].status \in {"finished", "failed"}
    /\ jobs' = [jobs EXCEPT ![j] = [NoJobRecord EXCEPT !.status = "expired"]]
    /\ UNCHANGED <<rq_queues, lanes, next_id, workers, req, resp, ck, route_log, hk, pl, mgr>>

\* The time that passes in one step of the clock.
TickSeconds == RESULT_TTL

\* A clock that counts down on every record, whatever its status.
age_any(job, dt) ==
    IF job.status \in {"none", "expired"} THEN job
    ELSE IF job.expires_in <= dt
    THEN [NoJobRecord EXCEPT !.status = "expired"]
    ELSE [job EXCEPT !.expires_in = @ - dt]

\* Redis EXPIRE: only the records of finished and failed jobs carry a time
\* to live; it counts down and the key is removed when it is over.
age(job, dt) ==
    IF job.status \notin {"finished", "failed"} THEN job
    ELSE IF job.expires_in <= dt
    THEN [NoJobRecord EXCEPT !.status = "expired"]
    ELSE [job EXCEPT !.expires_in = @ - dt]

tick ==
    /\ jobs' = [j \in JobIds |-> age(jobs[j], TickSeconds)]
    /\ jobs' # jobs
    /\ UNCHANGED <<rq_queues, lanes, next_id, workers, req, resp, ck, route_log, hk, pl, mgr>>

(***************************************************************************)
(* app.py: GET /jobs/{job_id}/status.                                      *)
(***************************************************************************)
\* schemas.py PDFMetadata: the fields declared with Field(...).
PDFMetadataRequired == {"filename", "processing_time"}

\* Line 335: the detail of the 404 names the exception caught.
status_detail(exc) == "Job not found or error retrieving status: " \o exc

\* A lookup that only finds the jobs of the extraction queue.
fetch_from_extraction_queue(job) ==
    job.status \notin {"none", "expired"} /\ job.origin = EXTRACTION_QUEUE

\* Line 299: Job.fetch finds the job hash by its id on the connection all
\* queues share; it raises NoSuchJobError when Redis holds no such hash.
fetch(job) == job.status \notin {"none", "expired"}

\* Lines 315-324: a result that says success and from which the
\* ExtractionResponse can be built.
succeeded(result) == "success" \in result.keys /\ result.success

interpretable(result) ==
    /\ {"metadata", "markdown"} \subseteq result.keys
    /\ PDFMetadataRequired \subseteq result.meta

\* A status that turns to failed when the result does not parse.
downgraded_status(job) ==
    IF /\ job.status = "finished"
       /\ succeeded(job.result)
       /\ ~interpretable(job.result)
    THEN "failed"
    ELSE job.status

\* Line 303: the status reported is the status of the record.
get_status(job) == job.status

\* Lines 333-335: the answer when anything in the try block raised.
not_found(j, exc) ==
    [NoResponse EXCEPT !.kind = "status", !.code = 404, !.job_id = j,
                       !.detail = status_detail(exc)]

get_job_status(j) ==
    LET job == jobs[j]
        result == job.result
        is_failed == job.status = "failed"
        is_finished == job.status = "finished"
        parsed == interpretable(result)
        success == succeeded(result)
        \* lines 309-310
        failed_error == IF job.exc_info # "" THEN job.exc_info
                        ELSE "Job failed without error details"
        \* lines 312-329
        finished_error == IF success THEN "Failed to parse job result"
                          ELSE IF "error" \in result.keys THEN result.error
                          ELSE "Job completed with errors"
        has_result == is_finished /\ result.keys # {} /\ success /\ parsed
        has_error == \/ is_failed
                     \/ is_finished /\ result.keys # {} /\ ~(success /\ parsed)
    IN  IF ~fetch(job)
        THEN not_found(j, "No such job")
        ELSE [NoResponse EXCEPT
                 !.kind = "status", !.code = 200, !.job_id = j,
                 !.status = get_status(job),
                 !.has_result = has_result, !.has_error = has_error,
                 !.error = IF is_finished /\ result.keys # {}
                              /\ ~(success /\ parsed)
                           THEN finished_error
                           ELSE IF is_failed THEN failed_error ELSE ""]

\* A query that removes the record it has read.
query_and_delete(j) ==
    /\ resp' = get_job_status(j)
    /\ jobs' = [jobs EXCEPT ![j] = IF fetch(@) /\ @.status \in {"finished", "failed"}
                                   THEN [NoJobRecord EXCEPT !.status = "expired"]
                                   ELSE @]
    /\ UNCHANGED <<rq_queues, lanes, next_id, workers, req, ck, route_log, hk, pl, mgr>>

status_query(j) ==
    /\ resp' = get_job_status(j)
    /\ UNCHANGED <<rq_queues, lanes, jobs, next_id, workers, req, ck, route_log, hk, pl, mgr>>

(***************************************************************************)
(* The endpoints with a broker that may be unreachable at the time of the  *)
(* call.  redis_connection.py: the connection property and every Redis     *)
(* command raise redis.ConnectionError; each endpoint meets it at its first *)
(* use of the queue, inside its try block.                                 *)
(***************************************************************************)
ConnectionFailed == "Redis connection failed"

\* POST /jobs/extract: the upload is validated before get_queue (line 176).
post_extract(priority, upload, reachable) ==
    IF upload = "ok" /\ ~reachable
    THEN /\ req.kind = "none"
         /\ resp' = [NoResponse EXCEPT
                        !.kind = "single", !.code = single_code(upload),
                        !.detail = "Failed to enqueue job: " \o ConnectionFailed]
         /\ UNCHANGED <<rq_queues, lanes, jobs, next_id, workers, req, ck,
                        route_log, hk, pl, mgr>>
    ELSE enqueue_extraction_job(priority, upload)

\* POST /jobs/batch-extract: validation, then the priority, then the queue
\* (line 254).
post_batch_extract(priority, files, json_ok, reachable) ==
    IF /\ validate_batch(files, json_ok) = "ok"
       /\ get_queue_by_priority(priority).ok
       /\ ~reachable
    THEN /\ req.kind = "none"
         /\ resp' = [NoResponse EXCEPT
                        !.kind = "batch", !.code = 500,
                        !.detail = "Failed to enqueue batch job: "
                                       \o ConnectionFailed]
         /\ UNCHANGED <<rq_queues, lanes, jobs, next_id, workers, req, ck,
                        route_log, hk, pl, mgr>>
    ELSE enqueue_batch_extraction_job(priority, files, json_ok)

\* GET /jobs/{job_id}/status: lines 298-299 raise, line 335 answers.
get_status_route(j, reachable) ==
    IF ~reachable
    THEN /\ resp' = not_found(j, ConnectionFailed)
         /\ UNCHANGED <<rq_queues, lanes, jobs, next_id, workers, req, ck,
                        route_log, hk, pl, mgr>>
    ELSE status_query(j)

Next ==
    \/ \E p \in PriorityInputs, u \in UploadKinds : enqueue_extraction_job(p, u)
    \/ respond_extraction_job
    \/ \E p \in PriorityInputs, files \in {<<GoodFile>>, OneEmptyOfThree} :
          enqueue_batch_extraction_job(p, files, TRUE)
    \/ \E f \in DirectFuncs : direct_enqueue(f)
    \/ \E w \in Workers : dequeue_job(w)
    \/ \E w \in Workers : prepare_job_execution(w)
    \/ \E w \in Workers, inp \in JobInputs : perform_job(w, inp)
    \/ \E j \in JobIds : expire(j)
    \/ \E j \in JobIds : status_query(j)

Spec == Init /\ [][Next]_vars

\* The lifecycle without the status endpoint.
QueueNext ==
    \/ \E p \in PriorityInputs, u \in UploadKinds : enqueue_extraction_job(p, u)
    \/ respond_extraction_job
    \/ \E p \in PriorityInputs, files \in {<<GoodFile>>, OneEmptyOfThree} :
          enqueue_batch_extraction_job(p, files, TRUE)
    \/ \E f \in DirectFuncs : direct_enqueue(f)
    \/ \E w \in Workers : dequeue_job(w)
    \/ \E w \in Workers : prepare_job_execution(w)
    \/ \E w \in Workers, inp \in JobInputs : perform_job(w, inp)
    \/ \E j \in JobIds : expire(j)

QueueSpec == Init /\ [][QueueNext]_vars

\* The worker side: jobs arrive in the lanes, workers run them.
WorkerNext ==
    \/ \E p \in PriorityInputs :
          enqueue_batch_extraction_job(p, <<GoodFile>>, TRUE)
    \/ \E f \in DirectFuncs : direct_enqueue(f)
    \/ \E w \in Workers : dequeue_job(w)
    \/ \E w \in Workers : prepare_job_execution(w)
    \/ \E w \in Workers, inp \in JobInputs : perform_job(w, inp)
    \/ \E j \in JobIds : expire(j)

\* The batch endpoint with every kind of upload, and the workers.
BatchNext ==
    \/ \E p \in PriorityInputs, files \in BatchFiles, json_ok \in BOOLEAN :
          enqueue_batch_extraction_job(p, files, json_ok)
    \/ \E w \in Workers : dequeue_job(w)
    \/ \E w \in Workers : prepare_job_execution(w)
    \/ \E w \in Workers, inp \in JobInputs : perform_job(w, inp)
    \/ \E j \in JobIds : expire(j)

BatchSpec == Init /\ [][BatchNext]_vars

\* The three endpoints with every kind of upload and a broker that is or
\* is not reachable.
EndpointNext ==
    \/ \E p \in PriorityInputs, u \in UploadKinds, reachable \in BOOLEAN :
          post_extract(p, u, reachable)
    \/ respond_extraction_job
    \/ \E p \in PriorityInputs, files \in BatchFiles :
       \E json_ok \in BOOLEAN, reachable \in BOOLEAN :
          post_batch_extract(p, files, json_ok, reachable)
    \/ \E j \in JobIds, reachable \in BOOLEAN : get_status_route(j, reachable)

EndpointSpec == Init /\ [][EndpointNext]_vars

\* The lifecycle of submitted jobs with the time their records are kept.
TtlNext ==
    \/ \E p \in PriorityInputs : enqueue_extraction_job(p, "ok")
    \/ respond_extraction_job
    \/ \E p \in PriorityInputs :
          enqueue_batch_extraction_job(p, <<GoodFile>>, TRUE)
    \/ \E w \in Workers : dequeue_job(w)
    \/ \E w \in Workers : prepare_job_execution(w)
    \/ \E w \in Workers, inp \in JobInputs : perform_job(w, inp)
    \/ tick

TtlSpec == Init /\ [][TtlNext]_vars

\* worker.work() is a loop: a worker that can take a step takes it.
FairWorkerSpec ==
    /\ Init /\ [][WorkerNext]_vars
    /\ \A w \in Workers :
          /\ WF_vars(dequeue_job(w))
          /\ WF_vars(prepare_job_execution(w))
          /\ WF_vars(\E inp \in JobInputs : perform_job(w, inp))

(***************************************************************************)
(* Calls of get_queue_by_priority, logged with what they named.            *)
(***************************************************************************)
HighSpellings ==
    { <<"h", "i", "g", "h">>, <<"H", "I", "G", "H">>, <<"H", "i", "g", "h">> }

NormalSpellings ==
    { <<"n", "o", "r", "m", "a", "l">>, <<"N", "O", "R", "M", "A", "L">>,
      <<"N", "o", "r", "m", "a", "l">> }

LowSpellings ==
    { <<"l", "o", "w">>, <<"L", "O", "W">>, <<"l", "o", "W">> }

OtherSpellings ==
    { <<>>, <<"u", "r", "g", "e", "n", "t">>, <<"h", "i", "g">>,
      <<" ", "l", "o", "w">>, <<"n", "o", "r", "m", "a", "l", "s">> }

PrioritySpellings ==
    HighSpellings \cup NormalSpellings \cup LowSpellings \cup OtherSpellings

route_call(priority) ==
    /\ Len(route_log) < MaxCalls
    /\ route_log' = Append(route_log,
                           [priority |-> priority,
                            ok |-> get_queue_by_priority(priority).ok,
                            name |-> get_queue_by_priority(priority).name])
    /\ UNCHANGED <<rq_queues, lanes, jobs, next_id, workers, req, resp, ck, hk, pl, mgr>>

RouteNext == \E p \in PrioritySpellings : route_call(p)

RouteSpec == Init /\ [][RouteNext]_vars

(***************************************************************************)
(* _chunk_by_tokens run one loop iteration at a time.                      *)
(***************************************************************************)
TextAlphabet == {"x", "y", " ", "\n"}

Texts == UNION {[1..n -> TextAlphabet] : n \in 0..MaxTextLen}

\* Lines 317-323.
chunk_call(markdown, chunk_size, chunk_overlap) ==
    /\ ck.pc = "idle"
    /\ ck' = IF invalid_window(chunk_size, chunk_overlap)
             THEN [IdleChunker EXCEPT !.pc = "raised",
                                      !.markdown = markdown,
                                      !.chunk_size = chunk_size,
                                      !.chunk_overlap = chunk_overlap]
             ELSE [IdleChunker EXCEPT !.pc = "loop",
                                      !.markdown = markdown,
                                      !.text = strip(markdown),
                                      !.chunk_size = chunk_size,
                                      !.chunk_overlap = chunk_overlap]
    /\ UNCHANGED <<rq_queues, lanes, jobs, next_id, workers, req, resp,
                   route_log, hk, pl, mgr>>

\* A counter that moves on with every window.
count_every_window(chunk_index, emitted) == chunk_index + 1

\* Line 350: chunk_index += 1 is inside the if that appends the chunk.
next_index(chunk_index, emitted) ==
    IF emitted THEN chunk_index + 1 ELSE chunk_index

\* Lines 325-357: one pass through the loop body.
chunk_iterate ==
    /\ ck.pc = "loop"
    /\ ck.start < Len(ck.text)
    /\ ck.iters < MaxIters
    /\ LET end == chunk_end(ck.text, ck.chunk_size, ck.start)
           chunks == emit_chunk(ck.chunks, ck.text, ck.start, end,
                                ck.chunk_index)
       IN  ck' = [ck EXCEPT !.end = end,
                            !.chunks = chunks,
                            !.chunk_index =
                                next_index(@, chunks # ck.chunks),
                            !.start = next_start(end, ck.chunk_overlap),
                            !.iters = @ + 1]
    /\ UNCHANGED <<rq_queues, lanes, jobs, next_id, workers, req, resp,
                   route_log, hk, pl, mgr>>

\* Line 359.
chunk_return ==
    /\ ck.pc = "loop"
    /\ ~(ck.start < Len(ck.text))
    /\ ck' = [ck EXCEPT !.pc = "returned"]
    /\ UNCHANGED <<rq_queues, lanes, jobs, next_id, workers, req, resp,
                   route_log, hk, pl, mgr>>

ChunkNext ==
    \/ \E t \in Texts, c \in 1..MaxChunk, o \in 0..MaxChunk : chunk_call(t, c, o)
    \/ chunk_iterate
    \/ chunk_return

ChunkSpec == Init /\ [][ChunkNext]_vars

(***************************************************************************)
(* Job lifecycle.                                                          *)
(***************************************************************************)
\* What a status query of job j shows in the current state.
observed(j) ==
    IF get_job_status(j).code = 200 THEN get_job_status(j).status ELSE "absent"

StatusSteps ==
    { <<"absent", "queued">>, <<"queued", "started">>,
      <<"started", "finished">>, <<"started", "failed">>,
      <<"finished", "absent">>, <<"failed", "absent">> }

\* C1: the status a query shows for one job only moves queued -> started ->
\* finished or failed, one step at a time; it never goes back, never skips
\* started, and a finished or failed job shows no other status afterwards
\* (its record may expire, and an expired record never comes back).
C1_StatusSequence ==
    [][\A j \in JobIds :
          /\ \/ observed(j)' = observed(j)
             \/ <<observed(j), observed(j)'>> \in StatusSteps
          /\ jobs[j].status = "expired" => jobs'[j].status = "expired"]_vars

\* One job failed and another finished, and the last query showed one of them.
C1_Witness ==
    /\ \E a, b \in JobIds : /\ jobs[a].status = "failed"
                            /\ jobs[b].status = "finished"
    /\ resp.kind = "status"
    /\ resp.code = 200
    /\ resp.status \in {"finished", "failed"}
    /\ jobs[resp.job_id].status = resp.status

\* C2: a status snapshot carries a result exactly when its status is
\* finished and an error exactly when its status is failed, never both, and
\* neither while it is queued or started.
C2_ResultIffFinished ==
    resp.kind = "status" /\ resp.code = 200 =>
        /\ resp.has_result <=> resp.status = "finished"
        /\ resp.has_error <=> resp.status = "failed"
        /\ ~(resp.has_result /\ resp.has_error)
        /\ resp.status \in {"queued", "started"} =>
              ~resp.has_result /\ ~resp.has_error

\* The pipeline of job j failed: its function raised, or returned a record
\* of failure.
pipeline_failed(j) ==
    \/ jobs[j].exc_info # ""
    \/ "success" \in jobs[j].result.keys /\ ~jobs[j].result.success

\* C3: a job whose pipeline failed in the worker ends failed, with the
\* failure's message kept in the record, and never finished.
C3_FailureEndsFailed ==
    \A j \in JobIds :
        pipeline_failed(j) =>
            /\ jobs[j].status = "failed"
            /\ jobs[j].exc_info # ""

(***************************************************************************)
(* Lanes and workers.                                                      *)
(***************************************************************************)
\* Worker w takes its next job in this step.
takes_job(w) == workers[w].pc = "idle" /\ workers'[w].pc = "dequeued"

\* C4: when a worker takes its next job, a job of the normal lane is never
\* taken while a job waits in the high lane, and a job of the low lane is
\* never taken while a job waits in the high or the normal lane.
C4_LanePrecedence ==
    [][\A w \in Workers :
          takes_job(w) =>
              LET lane == jobs[workers'[w].job].origin IN
              /\ lane = get_queue_by_priority(<<"n", "o", "r", "m", "a", "l">>).name
                    => lanes[HIGH_PRIORITY_QUEUE] = <<>>
              /\ lane = get_queue_by_priority(<<"l", "o", "w">>).name
                    => /\ lanes[HIGH_PRIORITY_QUEUE] = <<>>
                       /\ lanes[PDF_QUEUE] = <<>>]_vars

\* C5: an accepted submission with priority p puts its job in the lane
\* get_queue_by_priority(p) names, and the lane its response reports is the
\* lane the job is in.
C5_LaneIsRoute ==
    [][/\ \A p \in PriorityInputs :
             /\ get_queue_by_priority(p).ok
             /\ \/ enqueue_extraction_job(p, "ok")
                \/ enqueue_batch_extraction_job(p, <<GoodFile>>, TRUE)
             /\ next_id' = next_id + 1
             => jobs'[next_id].origin = get_queue_by_priority(p).name
       /\ respond_extraction_job /\ resp'.code = 200
             => resp'.queue_name = jobs[req.job_id].origin]_vars

waiting(j) ==
    /\ jobs[j].origin # ""
    /\ \E i \in DOMAIN lanes[jobs[j].origin] : lanes[jobs[j].origin][i] = j

\* C7: of two jobs enqueued in the same lane (ids are issued in the order of
\* the enqueues), the later one is never dequeued while the earlier one
\* still waits.
C7_FifoWithinLane ==
    \A a, b \in JobIds :
        /\ a < b
        /\ jobs[a].origin # ""
        /\ jobs[a].origin = jobs[b].origin
        /\ waiting(a)
        => waiting(b)

\* Two jobs of one lane, both dequeued, the first of them already running.
C7_Witness ==
    \E a, b \in JobIds :
        /\ a < b
        /\ jobs[a].origin # ""
        /\ jobs[a].origin = jobs[b].origin
        /\ jobs[a].dequeues = 1 /\ jobs[b].dequeues = 1
        /\ jobs[a].status \in {"started", "finished", "failed"}

\* C8: a job is dequeued at most once, at most one worker holds it, and only
\* the worker that dequeued it has written to its record.
C8_SingleOwner ==
    \A j \in JobIds :
        /\ jobs[j].dequeues <= 1
        /\ Cardinality({w \in Workers : workers[w].job = j}) <= 1
        /\ \A w \in Workers : workers[w].job = j => jobs[j].owner = w
        /\ jobs[j].updaters \subseteq {jobs[j].owner}
        /\ jobs[j].dequeues = 0 => jobs[j].owner = 0 /\ jobs[j].updaters = {}

\* Both workers hold a job of the same lane at the same time.
C8_Witness ==
    /\ \A w \in Workers : workers[w].pc = "busy"
    /\ \A w1, w2 \in Workers :
          /\ w1 # w2 => workers[w1].job # workers[w2].job
          /\ jobs[workers[w1].job].origin = jobs[workers[w2].job].origin
    /\ \A w \in Workers : jobs[workers[w].job].updaters = {w}

\* The lanes the workers poll.
polled == {rq_queues[i] : i \in DOMAIN rq_queues}

\* C9: a worker that runs a job comes back to the dequeue whether the job
\* succeeds or fails, and a job that waits in a polled lane is eventually
\* started.
C9_WorkerLoopContinues ==
    /\ \A w \in Workers : (workers[w].pc = "busy") ~> (workers[w].pc = "idle")
    /\ \A j \in JobIds :
          (jobs[j].status = "queued" /\ jobs[j].origin \in polled)
              ~> (jobs[j].status # "queued")

\* A job has failed in a worker that is now running a later job.
C9_Witness ==
    \E a, b \in JobIds :
        /\ a # b
        /\ jobs[a].status = "failed"
        /\ jobs[b].status = "started"
        /\ jobs[b].owner = jobs[a].owner
        /\ workers[jobs[b].owner].job = b

(***************************************************************************)
(* Token chunker.                                                          *)
(***************************************************************************)
\* C10: with chunk_overlap < chunk_size every iteration of the loop moves
\* start strictly forward, and the loop ends with start at or beyond the
\* end of the text.
C10_ForwardProgress ==
    [][/\ ck.pc = "loop" /\ ck'.pc = "loop" /\ ck'.iters = ck.iters + 1
          => ck'.start > ck.start
       /\ ck.pc = "loop" /\ ck'.pc = "returned"
          => ck.start >= Len(ck.text)]_vars

\* C11: a call of the token chunker with chunk_overlap >= chunk_size ends
\* in the ValueError, whatever the text, without entering the loop and
\* without a chunk.
C11_OverlapNotBelowSizeRaises ==
    ck.pc # "idle" /\ ck.chunk_overlap >= ck.chunk_size =>
        /\ ck.pc = "raised"
        /\ ck.chunks = <<>>
        /\ ck.iters = 0

\* A call on a text with content and an overlap equal to the window size.
C11_Witness ==
    /\ ck.pc = "raised"
    /\ ck.chunk_overlap = ck.chunk_size
    /\ strip(ck.markdown) # <<>>

whitespace_free(text) == \A i \in DOMAIN text : text[i] \notin Whitespace

\* The characters chunks k and k + 1 (from 0) of the finished run share.
overlap(k) ==
    ck.chunks[k + 1].start_char + Len(ck.chunks[k + 1].text)
        - ck.chunks[k + 2].start_char

\* A finished run on a whitespace-free text of length L emits
\* ceil(L / (C - O)) chunks, chunk k starting at k * (C - O) and holding the
\* C characters from there, or those up to the end of the text.
windows_every_stride ==
    LET L == Len(ck.markdown)
        d == ck.chunk_size - ck.chunk_overlap
        n == Len(ck.chunks)
    IN  /\ n = (L + d - 1) \div d
        /\ \A k \in 0..(n - 1) :
              /\ ck.chunks[k + 1].start_char = k * d
              /\ ck.chunks[k + 1].text
                    = slice(ck.markdown, k * d, k * d + ck.chunk_size)

\* C12 as stated: on a whitespace-free text the chunks are the windows at
\* every multiple of C - O, and every consecutive pair of chunks except
\* possibly the last one overlaps by exactly O characters.
C12_OverlapExceptLastPair ==
    ck.pc = "returned" /\ whitespace_free(ck.markdown) =>
        /\ windows_every_stride
        /\ \A k \in 0..(Len(ck.chunks) - 3) : overlap(k) = ck.chunk_overlap

\* C12: on a whitespace-free text the chunks are the windows at every
\* multiple of C - O; a consecutive pair overlaps by exactly O characters
\* when its first chunk holds the full C characters, and when the first
\* chunk is cut by the end of the text the second chunk is a suffix of it.
C12_OverlapOfFullWindows ==
    ck.pc = "returned" /\ whitespace_free(ck.markdown) =>
        /\ windows_every_stride
        /\ \A k \in 0..(Len(ck.chunks) - 2) :
              IF Len(ck.chunks[k + 1].text) = ck.chunk_size
              THEN overlap(k) = ck.chunk_overlap
              ELSE overlap(k) = Len(ck.chunks[k + 2].text)

\* A finished run on a whitespace-free text with an overlap, three chunks
\* or more, the first of them a full window.
C12_Witness ==
    /\ ck.pc = "returned"
    /\ whitespace_free(ck.markdown)
    /\ ck.chunk_overlap > 0
    /\ Len(ck.chunks) >= 3
    /\ Len(ck.chunks[1].text) = ck.chunk_size

(***************************************************************************)
(* Header chunker: calls of _chunk_by_headers on small documents.          *)
(***************************************************************************)
DocLines ==
    { <<"#", " ", "x">>, <<"#", "#", " ", "y">>, <<"x", "x">>, <<"x">>,
      <<>>, <<"#", "x">> }

Docs ==
    {join_lines(ls) : ls \in UNION {[1..n -> DocLines] : n \in 0..MaxLines}}

header_call(markdown, min_length) ==
    /\ hk.pc = "idle"
    /\ hk' = [pc |-> "returned", markdown |-> markdown,
              min_length |-> min_length,
              chunks |-> chunk_by_headers(markdown, min_length)]
    /\ UNCHANGED <<rq_queues, lanes, jobs, next_id, workers, req, resp, ck,
                   route_log, pl, mgr>>

HeaderNext ==
    \E d \in Docs, m \in 0..MaxMinLength : header_call(d, m)

HeaderSpec == Init /\ [][HeaderNext]_vars

\* The lines of the document of the call, and its sections: a section
\* starts at the first line and at every header line (1-based here) and
\* runs to the line before the next start.
doc_lines == splitlines(hk.markdown)

section_starts ==
    {i \in 1..Len(doc_lines) : i = 1 \/ header_match(doc_lines[i]).matched}

section_end(a) ==
    LET later == {i \in section_starts : i > a} IN
    IF later = {} THEN Len(doc_lines)
    ELSE (CHOOSE i \in later : \A k \in later : i <= k) - 1

section_text(a) == strip(join_lines(SubSeq(doc_lines, a, section_end(a))))

\* C13: a document of one header line (k markers, whitespace, a title) and
\* a body at least min_length long gives exactly one chunk, whose header is
\* the title and whose header_level is k.
C13_SingleHeaderChunk ==
    /\ hk.pc = "returned"
    /\ Len(doc_lines) >= 2
    /\ section_starts = {1}
    /\ header_match(doc_lines[1]).matched
    /\ Len(strip(join_lines(Tail(doc_lines)))) >= hk.min_length
    /\ Len(strip(join_lines(Tail(doc_lines)))) >= 1
    => /\ Len(hk.chunks) = 1
       /\ hk.chunks[1].header = header_match(doc_lines[1]).title
       /\ hk.chunks[1].header_level = header_match(doc_lines[1]).level

\* C14: the chunks are exactly the sections whose trimmed text is at least
\* min_length long, in document order, each with its own lines only; the
\* lines of a shorter section are in no chunk.
C14_EmittedIffLongEnough ==
    hk.pc = "returned" =>
        LET kept == {a \in section_starts :
                        Len(section_text(a)) >= hk.min_length}
        IN  /\ Len(hk.chunks) = Cardinality(kept)
            /\ \A c \in DOMAIN hk.chunks :
                  /\ hk.chunks[c].start_line + 1 \in kept
                  /\ hk.chunks[c].end_line + 1
                        = section_end(hk.chunks[c].start_line + 1)
                  /\ hk.chunks[c].text
                        = section_text(hk.chunks[c].start_line + 1)
            /\ \A c, d \in DOMAIN hk.chunks :
                  c < d => hk.chunks[c].end_line < hk.chunks[d].start_line
            /\ \A a \in section_starts \ kept, c \in DOMAIN hk.chunks :
                  \/ hk.chunks[c].end_line + 1 < a
                  \/ hk.chunks[c].start_line + 1 > section_end(a)

\* A document with a section that is kept and, before a later header, a
\* section that is too short and dropped.
C14_Witness ==
    /\ hk.pc = "returned"
    /\ Len(hk.chunks) >= 1
    /\ \E a \in section_starts :
          /\ Len(section_text(a)) < hk.min_length
          /\ Len(section_text(a)) >= 1
          /\ section_end(a) < Len(doc_lines)

(***************************************************************************)
(* The batch endpoint and the batch job.                                   *)
(***************************************************************************)
batch_jobs == {j \in JobIds : jobs[j].func = "batch_extract_pdfs_job"}

\* C15: a batch job that has ended has processed all its files: it ended
\* finished and has a result (the aggregate of the per-file outcomes and
\* the successful and failed counts), whatever files of it failed.
C15_BatchAggregatesEveryFile ==
    \A j \in batch_jobs :
        jobs[j].status \in {"finished", "failed"}
            => /\ jobs[j].status = "finished"
               /\ jobs[j].result.keys # {}

\* C16: a batch request of three files whose second file is empty is not
\* rejected: with a valid priority and valid JSON strings it is enqueued as
\* a job and its response is not a 400.
C16_EmptyFileBatchAccepted ==
    [][\A p \in PriorityInputs :
          /\ get_queue_by_priority(p).ok
          /\ next_id \in JobIds
          /\ enqueue_batch_extraction_job(p, OneEmptyOfThree, TRUE)
          => /\ resp'.code # 400
             /\ jobs'[next_id].status = "queued"]_vars

\* C17: a batch request with an empty file list ends in the batch-level
\* failure "No files provided": no job is created, no lane and no job
\* record changes and no worker is given anything to process.
C17_NoFilesRejectedBeforeAnyFile ==
    [][\A p \in PriorityInputs, json_ok \in BOOLEAN :
          enqueue_batch_extraction_job(p, <<>>, json_ok)
          => /\ resp'.kind = "batch"
             /\ resp'.code = 400
             /\ resp'.detail = "No files provided"
             /\ UNCHANGED <<lanes, jobs, next_id, workers>>]_vars

C17_Witness ==
    /\ resp.kind = "batch"
    /\ resp.code = 400
    /\ resp.detail = "No files provided"
    /\ next_id = 1
    /\ \A j \in JobIds : jobs[j] = NoJobRecord

(***************************************************************************)
(* The status endpoint.                                                    *)
(***************************************************************************)
\* C18: a status query of an id answers 404 (job not found) exactly when
\* the broker holds no record of the id, because the id was never issued
\* or because its record has expired, and answers with the snapshot of the
\* record in every other case, whatever lane the job was enqueued in.
C18_NotFoundIffNoRecord ==
    [][\A j \in JobIds :
          status_query(j) =>
              IF jobs[j].status \in {"none", "expired"}
              THEN resp'.code = 404
              ELSE /\ resp'.code = 200
                   /\ resp'.job_id = j
                   /\ resp'.status = jobs[j].status]_vars

C18_Witness ==
    /\ resp.kind = "status"
    /\ resp.code = 200
    /\ jobs[resp.job_id].status = resp.status
    /\ jobs[resp.job_id].origin \in LaneNames \ {EXTRACTION_QUEUE}
    /\ \E j \in JobIds : jobs[j].status = "expired"

\* C19: the query of a finished job whose result says success but does
\* not parse into the response model answers 200 with status finished, the
\* error "Failed to parse job result" and no result.
C19_ParseProblemKeepsFinished ==
    [][\A j \in JobIds :
          /\ status_query(j)
          /\ jobs[j].status = "finished"
          /\ succeeded(jobs[j].result)
          /\ ~interpretable(jobs[j].result)
          => /\ resp'.code = 200
             /\ resp'.status = "finished"
             /\ resp'.has_error
             /\ resp'.error = "Failed to parse job result"
             /\ ~resp'.has_result]_vars

C19_Witness ==
    /\ resp.kind = "status"
    /\ resp.code = 200
    /\ resp.status = "finished"
    /\ resp.error = "Failed to parse job result"
    /\ jobs[resp.job_id].status = "finished"
    /\ succeeded(jobs[resp.job_id].result)

\* The last response is the snapshot of the finished job j, whose record
\* is still held.
answered_finished(j) ==
    /\ resp.kind = "status"
    /\ resp.code = 200
    /\ resp.job_id = j
    /\ resp.status = "finished"
    /\ jobs[j].status = "finished"

\* C20: a status query changes no lane and no job record, and the query of
\* a finished job whose record is still held, asked again after it was
\* answered, gets the same snapshot again.
C20_QueryReadOnlyIdempotent ==
    [][\A j \in JobIds :
          status_query(j) =>
              /\ UNCHANGED <<lanes, jobs, next_id, workers>>
              /\ answered_finished(j) => resp' = resp]_vars

C20_Witness ==
    \E j \in JobIds :
        /\ answered_finished(j)
        /\ resp = get_job_status(j)
        /\ \E k \in JobIds \ {j} : jobs[k].status \in {"queued", "started"}

(***************************************************************************)
(* Rejected submissions and broker failures.                               *)
(***************************************************************************)
\* The batch requests that are bad input: no file, a file whose name is not
\* a PDF's, a file with no bytes, or a JSON string that does not parse.
bad_batch(files, json_ok) ==
    \/ files = <<>>
    \/ \E i \in DOMAIN files :
          \/ files[i].filename = <<>>
          \/ ~endswith(lower(files[i].filename), PdfSuffix)
          \/ files[i].pdf_bytes = "empty"
    \/ ~json_ok

\* C21: a submission whose input is bad (a name that is not a PDF's, an
\* empty payload, malformed JSON, and for a batch any such file or no
\* file) creates no job record and changes no lane: a step that changes a
\* lane, a job record or the next id is the step of no such submission.
C21_RejectedInputLeavesBroker ==
    [][\/ UNCHANGED <<lanes, jobs, next_id>>
       \/ /\ \A p \in PriorityInputs, u \in UploadKinds \ {"ok"} :
                \A reachable \in BOOLEAN : ~post_extract(p, u, reachable)
          /\ \A p \in PriorityInputs, files \in BatchFiles :
                \A json_ok \in BOOLEAN, reachable \in BOOLEAN :
                   bad_batch(files, json_ok)
                       => ~post_batch_extract(p, files, json_ok, reachable)]_vars

C21_Witness ==
    /\ resp.kind = "batch"
    /\ resp.code = 400
    /\ resp.detail = batch_detail("empty")
    /\ \E q \in LaneNames : lanes[q] # <<>>
    /\ next_id \in JobIds

\* C22: the outcome of a call that failed because the broker is
\* unreachable is none of the outcomes of a content failure: a submission
\* that met the unreachable broker is not answered with the status code of
\* any submission rejected for its input, and a status query that met it
\* is not answered with the status code of a job that is not found.
C22_BrokerFailureDistinct ==
    [][/\ \A p \in PriorityInputs :
             post_extract(p, "ok", FALSE)
                 => \A u \in UploadKinds \ {"ok"} :
                        resp'.code # single_code(u)
       /\ \A j \in JobIds :
             get_status_route(j, FALSE)
                 => resp'.code # not_found(j, "No such job").code]_vars

(***************************************************************************)
(* Retention of the records of ended jobs.                                 *)
(***************************************************************************)
ended(job) == job.status \in {"finished", "failed"}

timed_out(job) ==
    \/ job.result = ChunkingFailure("Task exceeded maximum timeout value")
    \/ job.exc_info = "Work-horse terminated unexpectedly"

\* C24: every job that is started is finished or failed at some later
\* time, and a job that did not complete within its timeout is failed.
C24_StartedEndsTimeoutFails ==
    /\ \A j \in JobIds : (jobs[j].status = "started") ~> ended(jobs[j])
    /\ [](\A j \in JobIds : timed_out(jobs[j]) => jobs[j].status = "failed")

(***************************************************************************)
(* The enqueue.                                                            *)
(***************************************************************************)
\* The ids that wait in the lanes.
in_lanes(ls) == UNION {{ls[q][i] : i \in DOMAIN ls[q]} : q \in LaneNames}

\* C25: the step that enqueues a job puts its id in its lane and creates
\* its record with status queued; every id in a lane has a record, and the
\* id a submission is answered with has a record at the time of the answer,
\* so that a status query of it is not answered with 404.
C25_EnqueueAtomic ==
    [][/\ next_id' # next_id
             => /\ next_id' = next_id + 1
                /\ jobs'[next_id].status = "queued"
                /\ lanes'[jobs'[next_id].origin]
                       = Append(lanes[jobs'[next_id].origin], next_id)
       /\ \A j \in in_lanes(lanes') : jobs'[j].status = "queued"
       /\ respond_extraction_job /\ resp'.code = 200
             => /\ fetch(jobs'[resp'.job_id])
                /\ resp'.job_id = req.job_id]_vars

C25_Witness ==
    /\ resp.kind = "single"
    /\ resp.code = 200
    /\ resp.job_id \in in_lanes(lanes)
    /\ get_job_status(resp.job_id).code = 200
    /\ next_id > MaxJobs

(***************************************************************************)
(* Token chunker: the end of a window and the ordinals.                    *)
(***************************************************************************)
\* The positions of the whitespace characters in [start, end) of text.
whitespace_in(text, start, end) ==
    {i \in start..(Min(end, Len(text)) - 1) : text[i + 1] \in Whitespace}

\* The largest member of a non-empty set of positions.
Max(S) == CHOOSE i \in S : \A k \in S : k <= i

\* C26: in an iteration whose tentative end start + chunk_size lies before
\* the end of the text, the end of the window is the position of the last
\* whitespace character (space, tab or newline) between start and the
\* tentative end, and the tentative end only when there is none; in other
\* iterations it is the tentative end.
C26_EndAtNearestWhitespace ==
    [][ck.pc = "loop" /\ ck'.pc = "loop" /\ ck'.iters = ck.iters + 1
          => LET tentative == ck.start + ck.chunk_size
                 ws == whitespace_in(ck.text, ck.start, tentative)
             IN  ck'.end = IF tentative < Len(ck.text) /\ ws # {}
                           THEN Max(ws) ELSE tentative]_vars

\* C27: the chunks emitted so far carry the ordinals 0, 1, 2, ... in the
\* order of their emission; an iteration whose window is empty after
\* trimming appends nothing and leaves the next ordinal as it is, and no
\* iteration changes a chunk that is already in the list.
C27_OrdinalsGapless ==
    [][ck'.pc \in {"loop", "returned"}
          => /\ \A k \in DOMAIN ck'.chunks : ck'.chunks[k].chunk_index = k - 1
             /\ ck'.chunk_index = Len(ck'.chunks)
             /\ ck.pc = "loop"
                   => /\ Len(ck'.chunks) >= Len(ck.chunks)
                      /\ SubSeq(ck'.chunks, 1, Len(ck.chunks)) = ck.chunks
                      /\ /\ ck'.iters = ck.iters + 1
                         /\ strip(slice(ck.text, ck.start, ck'.end)) = <<>>
                         => ck'.chunks = ck.chunks]_vars

C27_Witness ==
    /\ ck.pc = "returned"
    /\ Len(ck.chunks) >= 2
    /\ ck.iters > Len(ck.chunks)
    /\ ck.chunks[1].end_char < ck.chunks[2].start_char
    /\ ck.chunks[2].chunk_index = 1

(***************************************************************************)
(* Header chunker: the metadata of the chunks.                             *)
(***************************************************************************)
\* The header lines of the document.
header_lines == {i \in 1..Len(doc_lines) : header_match(doc_lines[i]).matched}

\* C28: in a document with two or more header lines, a chunk that starts
\* at a header line has the title of that line as header and the number of
\* its markers as header_level, and a chunk that starts before the first
\* header has no header and no level.
C28_OwnHeaderAndLevel ==
    hk.pc = "returned" /\ Cardinality(header_lines) >= 2 =>
        \A c \in DOMAIN hk.chunks :
            LET hm == header_match(doc_lines[hk.chunks[c].start_line + 1]) IN
            IF hm.matched
            THEN /\ hk.chunks[c].header = hm.title
                 /\ hk.chunks[c].header_level = hm.level
            ELSE /\ hk.chunks[c].header = <<>>
                 /\ hk.chunks[c].header_level = 0

\* C29: every chunk has 0 <= start_line <= end_line < number of lines and
\* as text the trimmed join of the lines start_line..end_line; the line
\* ranges of the chunks are disjoint and increase in the order of the
\* chunks; there are at most as many chunks as header lines plus one.
C29_LineRanges ==
    hk.pc = "returned" =>
        /\ \A c \in DOMAIN hk.chunks :
              /\ 0 <= hk.chunks[c].start_line
              /\ hk.chunks[c].start_line <= hk.chunks[c].end_line
              /\ hk.chunks[c].end_line < Len(doc_lines)
              /\ hk.chunks[c].text =
                     strip(join_lines(SubSeq(doc_lines,
                                             hk.chunks[c].start_line + 1,
                                             hk.chunks[c].end_line + 1)))
        /\ \A c \in 1..(Len(hk.chunks) - 1) :
              hk.chunks[c].end_line < hk.chunks[c + 1].start_line
        /\ Len(hk.chunks) <= Cardinality(header_lines) + 1

\* A preamble and two sections, each of them emitted.
C29_Witness ==
    /\ hk.pc = "returned"
    /\ Cardinality(header_lines) = 2
    /\ Len(hk.chunks) = 3
    /\ hk.min_length >= 1
    /\ hk.chunks[1].header = <<>>

(***************************************************************************)
(* The chunking pipeline as one call: extract_pdf_with_chunking_job        *)
(* applied to every combination of payload, strategy, window and text.     *)
(***************************************************************************)
pipeline_call(inp) ==
    /\ pl.pc = "idle"
    /\ LET r == extract_pdf_with_chunking_job(call_args(inp)) IN
        pl' = [pc |-> "returned", inp |-> inp, returned |-> r.returned,
               chunked |-> r.chunked, result |-> r.result]
    /\ UNCHANGED <<rq_queues, lanes, jobs, next_id, workers, req, resp, ck,
                   route_log, hk, mgr>>

PipelineNext == \E inp \in JobInputs : pipeline_call(inp)

PipelineSpec == Init /\ [][PipelineNext]_vars

\* The chunks the chunker of the call's strategy returns for its text.
chunks_of(args) ==
    IF args.chunk_strategy = "header"
    THEN chunk_by_headers(args.markdown, DEFAULT_MIN_LENGTH)
    ELSE chunk_by_tokens(args.markdown, args.chunk_size,
                         args.chunk_overlap).chunks

\* C30: the chunker runs only after the extraction step has succeeded.
\* When the extraction fails, the pipeline returns exactly the extraction's
\* failure, no chunker is reached (an invalid window is not reported) and
\* the result carries no chunks; when the pipeline succeeds, total_chunks
\* is the number of chunks the chunker returned.
C30_ChunkerAfterExtraction ==
    pl.pc = "returned" =>
        LET args == call_args(pl.inp)
            extraction_result == extract_pdf_markdown_job(args)
        IN  /\ pl.chunked => extraction_result.success
            /\ ~extraction_result.success =>
                   /\ pl.returned
                   /\ pl.result = extraction_result
                   /\ "chunks" \notin pl.result.keys
                   /\ pl.result.total_chunks = 0
            /\ pl.returned /\ pl.result.success =>
                   /\ extraction_result.success
                   /\ "chunks" \in pl.result.keys
                   /\ pl.result.total_chunks = Len(chunks_of(args))

\* A failed extraction under the token strategy with a window the chunker
\* rejects: the outcome is the extraction's failure.
C30_Witness ==
    /\ pl.pc = "returned"
    /\ pl.inp.pdf_bytes = "corrupt"
    /\ pl.inp.chunk_strategy = "token"
    /\ pl.inp.chunk_config[1] <= pl.inp.chunk_config[2]
    /\ ~pl.result.success
    /\ ~pl.chunked

\* C31: a submission call that answers its caller with an error has
\* enqueued no job.  A step of a submission endpoint that issues a job id
\* either goes on to build its response (the single endpoint) or answers
\* 200, and the single endpoint's response after its enqueue is a 200.
C31_ErrorMeansNothingEnqueued ==
    [][/\ next_id' # next_id => req'.kind = "single" \/ resp'.code = 200
       /\ req.kind = "single" /\ req'.kind = "none" => resp'.code = 200]_vars

\* The records of the jobs the single-document endpoint enqueued.
single_jobs ==
    {j \in JobIds : /\ jobs[j].origin = EXTRACTION_QUEUE
                    /\ jobs[j].func = "extract_pdf_markdown_job"}

\* C32: a job of the single-document endpoint is called with arguments its
\* function accepts, so it never ends failed: the function returns its own
\* failures, and a good payload ends finished with a result.
C32_SingleJobArgumentsAccepted ==
    \A j \in single_jobs :
        /\ binds(jobs[j].func, jobs[j].kwargs)
        /\ jobs[j].status # "failed"

\* C33: with a worker started with the default configuration (RQ_QUEUES
\* "extraction,chunking"), every job a submission enqueues waits in a lane
\* the worker polls, and every enqueued job eventually leaves queued.
C33_DefaultWorkerPollsEveryLane ==
    /\ [](\A j \in JobIds :
            rq_queues = WorkerConfigQueues /\ jobs[j].status = "queued"
                => jobs[j].origin \in polled)
    /\ \A j \in JobIds :
          (rq_queues = WorkerConfigQueues /\ jobs[j].status = "queued")
              ~> (jobs[j].status # "queued")

\* C34: every chunk of the token chunker has 0 <= start_char < end_char <=
\* length of the trimmed text and end_char - start_char <= chunk_size, and
\* its text is the trimmed content of [start_char, end_char) and not empty.
C34_ChunkSpanWithinText ==
    \A k \in DOMAIN ck.chunks :
        LET c == ck.chunks[k] IN
        /\ 0 <= c.start_char
        /\ c.start_char < c.end_char
        /\ c.end_char <= Len(ck.text)
        /\ c.end_char - c.start_char <= ck.chunk_size
        /\ c.text = strip(slice(ck.text, c.start_char, c.end_char))
        /\ c.text # <<>>

\* C35: when the token chunker returns, every position of the trimmed text
\* that holds a non-whitespace character lies in [start_char, end_char) of
\* some emitted chunk, and start_char never decreases along the chunks.
C35_ChunksCoverText ==
    ck.pc = "returned" =>
        /\ \A i \in 0..(Len(ck.text) - 1) :
              ck.text[i + 1] \notin Whitespace =>
                  \E k \in DOMAIN ck.chunks :
                      /\ ck.chunks[k].start_char <= i
                      /\ i < ck.chunks[k].end_char
        /\ \A k \in 1..(Len(ck.chunks) - 1) :
              ck.chunks[k].start_char <= ck.chunks[k + 1].start_char

\* A finished run with an overlap on a text with a space inside, cut into
\* three chunks or more.
C35_Witness ==
    /\ ck.pc = "returned"
    /\ ck.chunk_overlap > 0
    /\ Len(ck.chunks) >= 3
    /\ \E i \in DOMAIN ck.text : ck.text[i] = " "

\* C36: whatever the workers do between the enqueue and the response, the
\* response of an accepted single-document submission reports the status
\* queued.
C36_SubmissionReportsQueued ==
    resp.kind = "single" /\ resp.code = 200 => resp.status = "queued"

(***************************************************************************)
(* redis_connection.py: RedisConnectionManager.  Each method is an         *)
(* operator from the manager's fields to the fields after the call and     *)
(* what the call returned or raised; whether Redis answers a ping is the   *)
(* environment's choice at each call.                                      *)
(***************************************************************************)
MaxConns == 2

Returned(m, value) == [m |-> m, raised |-> FALSE, value |-> value]

Raised(m) == [m |-> m, raised |-> TRUE, value |-> 0]

\* Lines 55-85, the connection property: _connection is assigned the new
\* Redis object (from_url opens no socket) before the ping, and the except
\* clause raises ConnectionError without touching it.
connection(m, answers) ==
    IF m.connection # 0 THEN Returned(m, m.connection)
    ELSE LET c == m.conns + 1
             m1 == [m EXCEPT !.connection = c, !.conns = c]
         IN  IF answers
             THEN Returned([m1 EXCEPT !.answered = @ \cup {c}], c)
             ELSE Raised(m1)

\* Lines 87-109, get_queue: the cached Queue, or a new one built with
\* self.connection and cached; an exception of the property propagates.
get_queue(m, queue_name, answers) ==
    IF m.queues[queue_name].obj # 0
    THEN Returned(m, m.queues[queue_name].obj)
    ELSE LET c == connection(m, answers) IN
         IF c.raised THEN Raised(c.m)
         ELSE LET o == c.m.objs + 1 IN
              Returned([c.m EXCEPT !.objs = o,
                                   !.queues[queue_name] =
                                       [obj |-> o, connection |-> c.value]],
                       o)

\* Lines 111-123, health_check: True (1) when self.connection.ping()
\* answers, False (0) when the property or the ping raises.
health_check(m, answers, pong) ==
    LET c == connection(m, answers) IN
    IF c.raised THEN Returned(c.m, 0)
    ELSE Returned(c.m, IF pong THEN 1 ELSE 0)

\* A close whose clean-up is skipped when closing the connection raises.
close_without_finally(m, close_raises) ==
    IF m.connection # 0 /\ ~close_raises
    THEN Returned([m EXCEPT !.connection = 0,
                            !.queues = [n \in LaneNames |-> NoQueue]], 0)
    ELSE Returned(m, 0)

\* Lines 170-182, close: with a connection, it is closed (an exception is
\* logged) and the finally clause drops the connection and the queues.
close(m, close_raises) ==
    IF m.connection # 0
    THEN Returned([m EXCEPT !.connection = 0,
                            !.queues = [n \in LaneNames |-> NoQueue]], 0)
    ELSE Returned(m, 0)

\* The queue names the service asks the manager for.
ManagerQueueNames == {EXTRACTION_QUEUE, PDF_QUEUE}

\* One call on the manager: its fields after the call, and ret.
manager_call(call, arg, r) ==
    /\ r.m.conns <= MaxConns
    /\ mgr' = [r.m EXCEPT !.ret = [call |-> call, arg |-> arg,
                                   raised |-> r.raised, value |-> r.value]]
    /\ UNCHANGED <<rq_queues, lanes, jobs, next_id, workers, req, resp, ck,
                   route_log, hk, pl>>

ManagerNext ==
    \/ \E answers \in BOOLEAN :
          manager_call("connection", "", connection(mgr, answers))
    \/ \E n \in ManagerQueueNames, answers \in BOOLEAN :
          manager_call("get_queue", n, get_queue(mgr, n, answers))
    \/ \E answers \in BOOLEAN, pong \in BOOLEAN :
          manager_call("health_check", "", health_check(mgr, answers, pong))
    \/ \E close_raises \in BOOLEAN :
          manager_call("close", "", close(mgr, close_raises))

ManagerSpec == Init /\ [][ManagerNext]_vars

\* C37: the connection property returns a connection whose ping at creation
\* was answered, or raises; the manager caches no connection that failed
\* its ping, and no queue bound to one.
C37_NoUnansweredConnectionCached ==
    /\ mgr.connection # 0 => mgr.connection \in mgr.answered
    /\ mgr.ret.call = "connection" /\ ~mgr.ret.raised
          => mgr.ret.value \in mgr.answered
    /\ \A n \in LaneNames :
          mgr.queues[n].obj # 0 => mgr.queues[n].connection \in mgr.answered

\* C38: after any sequence of calls, every cached queue is bound to the
\* cached connection and no two names share a queue object; get_queue of a
\* cached name returns the cached object and creates nothing; after close()
\* the manager holds no connection and no queue, also when closing raised.
C38_QueuesBoundToCachedConnection ==
    /\ [](/\ \A n \in LaneNames :
                mgr.queues[n].obj # 0 =>
                    /\ mgr.connection # 0
                    /\ mgr.queues[n].connection = mgr.connection
          /\ \A n1, n2 \in LaneNames :
                n1 # n2 /\ mgr.queues[n1].obj # 0
                    => mgr.queues[n1].obj # mgr.queues[n2].obj
          /\ mgr.ret.call = "close" =>
                /\ mgr.connection = 0
                /\ \A n \in LaneNames : mgr.queues[n] = NoQueue)
    /\ [][\A n \in ManagerQueueNames :
             /\ mgr.queues[n].obj # 0
             /\ mgr'.ret.call = "get_queue" /\ mgr'.ret.arg = n
             => /\ mgr'.ret.value = mgr.queues[n].obj
                /\ mgr'.queues = mgr.queues
                /\ mgr'.objs = mgr.objs]_vars

\* The manager has been closed with a queue cached and has since built its
\* latest queue, the third or a later one, on its second connection.
C38_Witness ==
    /\ mgr.conns = 2
    /\ mgr.connection = 2
    /\ mgr.objs >= 3
    /\ \E n \in LaneNames : mgr.queues[n].obj = mgr.objs

\* The shape of a job function's record: success is there; with success
\* the markdown and the metadata are there and no error; without it the
\* error is there and no markdown, metadata or chunks.
well_formed(result) ==
    /\ "success" \in result.keys
    /\ result.success =>
          /\ {"markdown", "metadata"} \subseteq result.keys
          /\ "error" \notin result.keys
    /\ ~result.success =>
          /\ "error" \in result.keys
          /\ result.keys \cap {"markdown", "metadata", "chunks"} = {}

\* C39: for every payload, strategy, window and text, both job functions
\* return, and what they return is a well-formed record.
C39_JobFunctionsAlwaysReturn ==
    pl.pc = "returned" =>
        /\ well_formed(extract_pdf_markdown_job(call_args(pl.inp)))
        /\ pl.returned
        /\ well_formed(pl.result)

====
